---- MODULE Spec2Model ----
(***************************************************************************)
(* Model of meyendtris/framework/basicstimuli.py: the stimulus factories   *)
(* of BasicStimuli (write, crosshair, rectangle, frame, picture, sound,    *)
(* movie), their duration/blocking policy, the implicit markers and the    *)
(* destruction helper _destroy_object working on the list _to_destroy.     *)
(*                                                                         *)
(* Engine objects are numbered 1, 2, ... in creation order; engine[o] is   *)
(* the kind of object o and whether it is still live.  A factory call is   *)
(* a record of calls; the run() coroutine executes one call at a time and  *)
(* is suspended inside sleep()/waitfor(), where timers fire and the        *)
(* cancellation interrupt is raised.                                       *)
(***************************************************************************)
EXTENDS Integers, Sequences

VARIABLES
    implicit_markers,   \* self.implicit_markers
    to_destroy,         \* self._to_destroy, a sequence of object ids
    engine,             \* the engine objects created so far: id -> [kind, st]
    calls,              \* the factory calls made so far, in order
    markers,            \* the markers the module sent by itself: [code, stim]
    explicit,           \* the codes user code sent through marker()
    cancelled,          \* the interrupt has propagated out of run()
    lastEvent,          \* the last event posted to the messenger
    last_destroy        \* outcome of the last _destroy_object call

vars == <<implicit_markers, to_destroy, engine, calls, markers, explicit,
          cancelled, lastEvent, last_destroy>>

\* ---------------------------------------------------------------- bounds
MaxCalls == 1

\* ------------------------------------------------------------ vocabulary
Visual == {"write", "crosshair", "rectangle", "frame", "picture"}
Factories == Visual \cup {"sound", "movie"}
Events == {"go", "other"}

\* The duration forms of the factories' comments: a number, an event name,
\* or a pair [number, event name].
Durations ==
    { [type |-> "num", num |-> 0, ev |-> "none"],
      [type |-> "num", num |-> 1, ev |-> "none"],
      [type |-> "str", num |-> 0, ev |-> "go"],
      [type |-> "list", num |-> 1, ev |-> "go"] }

\* The length of a sound or movie, used as its duration.
MediaLength == [type |-> "num", num |-> 1, ev |-> "none"]

None == 0
\* A value with neither destroy() nor stop(), e.g. a number.
Plain == -1

Range(s) == {s[i] : i \in DOMAIN s}

RECURSIVE RemoveFirst(_, _)
\* list.remove(x): drops the first element equal to x (x is in s).
RemoveFirst(s, x) ==
    IF s = <<>> THEN <<>>
    ELSE IF Head(s) = x THEN Tail(s)
    ELSE <<Head(s)>> \o RemoveFirst(Tail(s), x)

\* ----------------------------------------------------------- marker codes
OnsetCode(f) ==
    CASE f = "write" -> 254
      [] f = "crosshair" -> 252
      [] f = "rectangle" -> 250
      [] f = "picture" -> 248
      [] f = "sound" -> 246
      [] f = "movie" -> 244
      [] f = "frame" -> 242

OffsetCode(f) ==
    CASE f = "write" -> 255
      [] f = "crosshair" -> 253
      [] f = "rectangle" -> 251
      [] f = "picture" -> 249
      [] f = "sound" -> 247
      [] f = "movie" -> 245
      [] f = "frame" -> 243

\* meyendtris.framework.eventmarkers.eventmarkers.send_marker(markercode)
\* (stim names the stimulus the module sends the marker for)
marker(log, code, stim) == Append(log, [code |-> code, stim |-> stim])

\* ------------------------------------------------------- _destroy_object
HasDestroy(eng, ele) == ele \in DOMAIN eng /\ eng[ele].kind \in {"text", "image"}

HasStop(eng, ele) == ele \in DOMAIN eng /\ eng[ele].kind \in {"sound", "texture"}

\* obj = list(obj) if isinstance(obj, tuple) else obj
\* obj = [obj] if not isinstance(obj, list) else obj
\* (a single argument is carried as the one-element sequence of itself)
Normalise(arg) ==
    IF arg.shape = "tuple" THEN arg.elems
    ELSE IF arg.shape # "list" THEN <<arg.elems[1]>>
    ELSE arg.elems

\* self._to_destroy.remove(ele): ValueError when ele is not in the list.
ListRemove(td, ele) ==
    IF ele \in Range(td)
    THEN [td |-> RemoveFirst(td, ele), exc |-> "none"]
    ELSE [td |-> td, exc |-> "ValueError"]

RECURSIVE DestroyLoop(_, _, _, _, _)
\* for ele in obj: ... ; i is the iterator's position in obj, which the
\* body may shorten (obj.remove(ele)); fault is the element whose
\* destroy()/stop() raises in this call (None: no element raises).
DestroyLoop(i, obj, td, eng, fault) ==
    IF i > Len(obj) THEN [td |-> td, eng |-> eng, exc |-> "none"]
    ELSE LET ele == obj[i] IN
        IF ele = None THEN DestroyLoop(i + 1, obj, td, eng, fault)
        ELSE IF (HasDestroy(eng, ele) \/ HasStop(eng, ele)) /\ ele = fault
        THEN [td |-> td, eng |-> eng, exc |-> "EngineError"]
        ELSE LET eng2 == IF HasDestroy(eng, ele)
                         THEN [eng EXCEPT ![ele].st = "destroyed"]
                         ELSE IF HasStop(eng, ele)
                         THEN [eng EXCEPT ![ele].st = "stopped"]
                         ELSE eng
                 obj2 == IF HasDestroy(eng, ele) \/ HasStop(eng, ele)
                         THEN obj
                         ELSE RemoveFirst(obj, ele)
                 rm   == ListRemove(td, ele)
             IN IF rm.exc # "none"
                THEN [td |-> td, eng |-> eng2, exc |-> rm.exc]
                ELSE DestroyLoop(i + 1, obj2, rm.td, eng2, fault)

\* A handler written as except ValueError: it misses the engine's errors.
CaughtValueErrorOnly(exc) == exc = "ValueError"

\* except: (a bare except clause catches every exception)
Caught(exc) == TRUE

\* The marker sent whenever an id is given, whatever the flag.
DestroyMarkerUnconditional(log, id, stim, flag) ==
    IF id > 0 THEN marker(log, id, stim) ELSE log

\* if id > 0 and self.implicit_markers: self.marker(id)
DestroyMarker(log, id, stim, flag) ==
    IF id > 0 /\ flag THEN marker(log, id, stim) ELSE log

\* _destroy_object(obj, id): the result is the new _to_destroy, engine and
\* marker log, and the outcome: the exception raised inside the try block,
\* the number of warnings issued, and the exception that escaped to the
\* caller ("none" when the call returned normally).
destroy_object(arg, id, stim, fault, flag, td, eng, log) ==
    LET obj  == Normalise(arg)
        log2 == DestroyMarker(log, id, stim, flag)
        r    == DestroyLoop(1, obj, td, eng, fault)
    IN [td |-> r.td, eng |-> r.eng, log |-> log2,
        out |-> [exc |-> r.exc,
                 warnings |-> IF r.exc # "none" /\ Caught(r.exc) THEN 1 ELSE 0,
                 escaped |-> IF r.exc # "none" /\ ~Caught(r.exc)
                             THEN r.exc ELSE "none"]]

\* destroy_helper.destroy(): for o in self.objs: o.destroy()
\* and the destroy()/stop() of a single returned engine object.
HandleDestroy(eng, objs) ==
    [o \in DOMAIN eng |->
        IF o \in Range(objs)
        THEN [eng[o] EXCEPT !.st = IF eng[o].kind \in {"text", "image"}
                                   THEN "destroyed" ELSE "stopped"]
        ELSE eng[o]]

\* -------------------------------------------------------------- factories
\* The engine objects a factory creates, in creation order.  movie loads
\* the sound track first (hasSnd: the file has one), then the texture,
\* then the image.
Kinds(f, hasSnd) ==
    CASE f = "write" -> <<"text">>
      [] f = "crosshair" -> <<"image", "image">>
      [] f = "rectangle" -> <<"image">>
      [] f = "frame" -> <<"image", "image", "image", "image">>
      [] f = "picture" -> <<"image">>
      [] f = "sound" -> <<"sound">>
      [] f = "movie" -> IF hasSnd THEN <<"sound", "texture", "image">>
                        ELSE <<"texture", "image">>

\* A factory that leaves its last object out of the list.
AppendedAllButLast(f, created) == SubSeq(created, 1, Len(created) - 1)

\* self._to_destroy.append(obj) after each creation.
Appended(f, created) == created

\* if duration == 0: block = False   (write, rectangle and picture only)
EffectiveBlock(f, duration, block) ==
    IF f \in {"write", "rectangle", "picture"}
       /\ duration.type = "num" /\ duration.num = 0
    THEN FALSE
    ELSE block

\* A policy that treats a list like a plain event name.
WaitPlanEventOnly(duration) ==
    IF duration.type \in {"list", "str"} THEN <<"waitfor">> ELSE <<"sleep">>

\* if type(duration) == list or type(duration) == tuple:
\*     self.sleep(duration[0]); self.waitfor(duration[1])
\* elif type(duration) == str: self.waitfor(duration)
\* else: self.sleep(duration)
WaitPlan(duration) ==
    IF duration.type = "list" THEN <<"sleep", "waitfor">>
    ELSE IF duration.type = "str" THEN <<"waitfor">>
    ELSE <<"sleep">>

\* The else branch of a visual factory: if duration > 0: doMethodLater(...)
\* (comparing a str or a list with 0 raises TypeError); sound and movie
\* always schedule the timer.
NonBlockingOutcome(f, duration) ==
    IF f \notin Visual THEN "timer"
    ELSE IF duration.type # "num" THEN "TypeError"
    ELSE IF duration.num > 0 THEN "timer"
    ELSE "notimer"

\* The argument of _destroy_object at the end of a blocking call.
BlockingArg(f, objs) ==
    CASE f \in {"write", "rectangle", "picture", "sound"} ->
            [shape |-> "single", elems |-> <<objs[1]>>]
      [] f \in {"crosshair", "frame"} -> [shape |-> "list", elems |-> objs]
      [] f = "movie" -> [shape |-> "single", elems |-> <<objs[Len(objs)]>>]

\* A timer that is handed only the first object the factory created.
TimerArgFirstOnly(f, objs) == [shape |-> "single", elems |-> <<objs[1]>>]

\* The extraArgs of the timer scheduled by a non-blocking call.
TimerArg(f, objs) ==
    CASE f \in {"write", "rectangle", "picture"} ->
            [shape |-> "single", elems |-> <<objs[1]>>]
      [] f \in {"crosshair", "frame"} -> [shape |-> "list", elems |-> objs]
      [] f = "sound" -> [shape |-> "single", elems |-> <<None>>]
      [] f = "movie" ->
            [shape |-> "list",
             elems |-> <<objs[Len(objs)], objs[Len(objs) - 1],
                         IF Len(objs) = 3 THEN objs[1] ELSE None>>]

\* The value a non-blocking call returns: the object, a destroy_helper of
\* the objects, the sound, or the movie's playable (sound track or texture).
Handle(f, objs) ==
    IF f \in {"crosshair", "frame"} THEN objs ELSE <<objs[1]>>

Active == {c \in DOMAIN calls : calls[c].pc \in {"sleep", "waitfor"}}

\* run() is executing user code: it is not suspended and not ended.
Running == ~cancelled /\ Active = {}

\* ------------------------------------------------- sound and movie length
\* The playback options of sound and movie: the length of the file, and
\* the parameters playrate, timeoffset, looping and loopcount.
DefaultMedia ==
    [length |-> MediaLength.num, playrate |-> 1, timeoffset |-> 0,
     looping |-> FALSE, loopcount |-> None]

FileLengths == {4}

Playrates == {1, 2}

Timeoffsets == {0, 2}

Loopcounts == {None, 2}

MediaOptions ==
    [length : FileLengths, playrate : Playrates, timeoffset : Timeoffsets,
     looping : BOOLEAN, loopcount : Loopcounts]

LoopingSoundLength == 100000

LoopingMovieLength == 10000000

\* sound: length = obj.length(); length *= loopcount; looping: 100000;
\* length -= timeoffset; length *= playrate
sound_length(m) ==
    LET l1 == IF m.loopcount # None THEN m.length * m.loopcount ELSE m.length
        l2 == IF m.looping THEN LoopingSoundLength ELSE l1
        l3 == IF m.timeoffset > 0 THEN l2 - m.timeoffset ELSE l2
    IN l3 * m.playrate

\* movie: length = snd.length() (or tex.getTime()); length /= playrate;
\* length = length*loopcount; looping: 10000000; length -= timeoffset
\* (the lengths drawn are multiples of the play rates: the division is exact)
movie_length(m) ==
    LET l1 == IF m.playrate # 1 THEN m.length \div m.playrate ELSE m.length
        l2 == IF m.loopcount # None THEN l1 * m.loopcount ELSE l1
        l3 == IF m.looping THEN LoopingMovieLength ELSE l2
    IN IF m.timeoffset > 0 THEN l3 - m.timeoffset ELSE l3

\* One factory call up to its first suspension or its return; media holds
\* the playback options of a sound or movie.
PresentWith(f, duration, block, hasSnd, media) ==
    /\ Running
    /\ Len(calls) < MaxCalls
    /\ LET n       == Len(engine)
           kinds   == Kinds(f, hasSnd)
           created == [i \in 1..Len(kinds) |-> n + i]
           stim    == Len(calls) + 1
           blk     == EffectiveBlock(f, duration, block)
           out     == NonBlockingOutcome(f, duration)
       IN /\ engine' = engine \o [i \in 1..Len(kinds) |->
                                    [kind |-> kinds[i], st |-> "live"]]
          /\ to_destroy' = to_destroy \o Appended(f, created)
          /\ markers' = IF implicit_markers
                        THEN marker(markers, OnsetCode(f), stim)
                        ELSE markers
          /\ calls' = Append(calls,
                [f |-> f, duration |-> duration, block |-> block,
                 objs |-> created, blk |-> blk,
                 pc |-> IF blk THEN Head(WaitPlan(duration))
                        ELSE IF out = "TypeError" THEN "raised"
                        ELSE "returned",
                 rest |-> IF blk THEN Tail(WaitPlan(duration)) ELSE <<>>,
                 timer |-> IF ~blk /\ out = "timer" THEN "pending" ELSE "none",
                 handle |-> IF ~blk /\ out # "TypeError"
                            THEN Handle(f, created) ELSE <<>>,
                 markers_on |-> implicit_markers,
                 faulted |-> FALSE, media |-> media, manual |-> FALSE])
    /\ UNCHANGED <<implicit_markers, explicit, cancelled, lastEvent,
                   last_destroy>>

\* A call with the default playback options.
Present(f, duration, block, hasSnd) ==
    PresentWith(f, duration, block, hasSnd, DefaultMedia)

write(duration, block) == Present("write", duration, block, FALSE)

crosshair(duration, block) == Present("crosshair", duration, block, FALSE)

rectangle(duration, block) == Present("rectangle", duration, block, FALSE)

frame(duration, block) == Present("frame", duration, block, FALSE)

picture(duration, block) == Present("picture", duration, block, FALSE)

sound(block) == Present("sound", MediaLength, block, FALSE)

movie(block, hasSnd) == Present("movie", MediaLength, block, hasSnd)

\* sound(filename, block, playrate=, timeoffset=, looping=, loopcount=)
sound_with(block, media) ==
    PresentWith("sound", [type |-> "num", num |-> sound_length(media), ev |-> "none"],
                block, FALSE, media)

\* movie(filename, block, playrate=, timeoffset=, looping=, loopcount=)
movie_with(block, hasSnd, media) ==
    PresentWith("movie", [type |-> "num", num |-> movie_length(media), ev |-> "none"],
                block, hasSnd, media)

\* ------------------------------------------------- the rest of a lifecycle
\* The elements of an argument whose destroy()/stop() may raise.
Faults(arg) == {None} \cup (Range(arg.elems) \ {None, Plain})

\* The state after a call of _destroy_object made for stimulus stim.
Destroyed(r, stim, pcAfter, timerAfter) ==
    /\ to_destroy' = r.td
    /\ engine' = r.eng
    /\ markers' = r.log
    /\ last_destroy' = r.out
    /\ calls' = [calls EXCEPT
                   ![stim].pc = IF r.out.escaped # "none" THEN "raised" ELSE pcAfter,
                   ![stim].timer = timerAfter,
                   ![stim].markers_on = @ /\ implicit_markers,
                   ![stim].faulted = @ \/ r.out.exc # "none"]

\* The wait of a blocking call is over: self._destroy_object(..., offset).
Finish(c, fault) ==
    LET arg == BlockingArg(calls[c].f, calls[c].objs)
    IN /\ fault \in Faults(arg)
       /\ Destroyed(destroy_object(arg, OffsetCode(calls[c].f), c, fault,
                                   implicit_markers, to_destroy, engine, markers),
                    c, "returned", calls[c].timer)

\* LatentModule.sleep() returns.
SleepDone(c, fault) ==
    /\ c \in Active
    /\ calls[c].pc = "sleep"
    /\ IF calls[c].rest # <<>>
       THEN /\ fault = None
            /\ calls' = [calls EXCEPT ![c].pc = Head(calls[c].rest),
                                      ![c].rest = Tail(calls[c].rest)]
            /\ UNCHANGED <<to_destroy, engine, markers, last_destroy>>
       ELSE Finish(c, fault)
    /\ UNCHANGED <<implicit_markers, explicit, cancelled, lastEvent>>

\* An event is posted while run() is suspended (the engine's main loop
\* dispatches events only then); LatentModule.waitfor(e) returns when the
\* module is waiting for it, and the event is lost otherwise.
Event(e, fault) ==
    /\ Active # {}
    /\ lastEvent' = e
    /\ IF \E c \in Active : calls[c].pc = "waitfor" /\ calls[c].duration.ev = e
       THEN \E c \in Active : Finish(c, fault)
       ELSE /\ fault = None
            /\ UNCHANGED <<to_destroy, engine, markers, last_destroy, calls>>
    /\ UNCHANGED <<implicit_markers, explicit, cancelled>>

\* The experimenter cancels the run: the interrupt is raised inside the
\* sleep()/waitfor() the module is suspended in and leaves the factory.
Cancel(c) ==
    /\ c \in Active
    /\ calls' = [calls EXCEPT ![c].pc = "cancelled"]
    /\ cancelled' = TRUE
    /\ UNCHANGED <<implicit_markers, to_destroy, engine, markers, explicit,
                   lastEvent, last_destroy>>

\* The task scheduled by doMethodLater runs self._destroy_object(*extraArgs).
TimerFire(c, fault) ==
    /\ c \in DOMAIN calls
    /\ calls[c].timer = "pending"
    /\ LET arg == TimerArg(calls[c].f, calls[c].objs)
       IN /\ fault \in Faults(arg)
          /\ Destroyed(destroy_object(arg, OffsetCode(calls[c].f), c, fault,
                                      implicit_markers, to_destroy, engine, markers),
                       c, calls[c].pc, "fired")
    /\ UNCHANGED <<implicit_markers, explicit, cancelled, lastEvent>>

\* The caller destroys (or stops) the value a non-blocking call returned;
\* manual records that it did so while the timer was still pending.
ManualDestroy(c) ==
    /\ Running
    /\ c \in DOMAIN calls
    /\ calls[c].handle # <<>>
    /\ engine' = HandleDestroy(engine, calls[c].handle)
    /\ calls' = [calls EXCEPT ![c].manual = @ \/ calls[c].timer = "pending"]
    /\ UNCHANGED <<implicit_markers, to_destroy, markers, explicit,
                   cancelled, lastEvent, last_destroy>>

\* Arguments of a direct call of _destroy_object: a single value, or a
\* list or tuple of up to two values; a value is None, a value without
\* destroy() and stop(), or an engine object.
Elements == {None, Plain} \cup DOMAIN engine

Args ==
    {[shape |-> "single", elems |-> <<x>>] : x \in Elements}
    \cup {[shape |-> sh, elems |-> <<>>] : sh \in {"list", "tuple"}}
    \cup {[shape |-> sh, elems |-> <<x>>] : sh \in {"list", "tuple"}, x \in Elements}
    \cup {[shape |-> "list", elems |-> <<x, y>>] : x \in Elements, y \in Elements}

\* The default of the parameter id of _destroy_object.
DefaultId == -1

\* User code calls self._destroy_object(obj) itself.
DirectDestroy(arg, fault) ==
    /\ Running
    /\ fault \in Faults(arg)
    /\ LET r == destroy_object(arg, DefaultId, 0, fault, implicit_markers,
                               to_destroy, engine, markers)
       IN /\ to_destroy' = r.td
          /\ engine' = r.eng
          /\ markers' = r.log
          /\ last_destroy' = r.out
    /\ UNCHANGED <<implicit_markers, calls, explicit, cancelled, lastEvent>>

\* User code sets self.implicit_markers.
SetImplicitMarkers(b) ==
    /\ Running
    /\ b # implicit_markers
    /\ implicit_markers' = b
    /\ UNCHANGED <<to_destroy, engine, calls, markers, explicit, cancelled,
                   lastEvent, last_destroy>>

ExplicitCodes == {254}

\* User code calls self.marker(markercode).
ExplicitMarker(code) ==
    /\ Running
    /\ explicit' = explicit \cup {code}
    /\ UNCHANGED <<implicit_markers, to_destroy, engine, calls, markers,
                   cancelled, lastEvent, last_destroy>>

\* BasicStimuli.__init__
Init ==
    /\ implicit_markers = FALSE
    /\ to_destroy = <<>>
    /\ engine = <<>>
    /\ calls = <<>>
    /\ markers = <<>>
    /\ explicit = {}
    /\ cancelled = FALSE
    /\ lastEvent = "none"
    /\ last_destroy = [exc |-> "none", warnings |-> 0, escaped |-> "none"]

Next ==
    \/ \E d \in Durations, b \in BOOLEAN : write(d, b)
    \/ \E d \in Durations, b \in BOOLEAN : crosshair(d, b)
    \/ \E d \in Durations, b \in BOOLEAN : rectangle(d, b)
    \/ \E d \in Durations, b \in BOOLEAN : frame(d, b)
    \/ \E d \in Durations, b \in BOOLEAN : picture(d, b)
    \/ \E b \in BOOLEAN : sound(b)
    \/ \E b \in BOOLEAN, hasSnd \in BOOLEAN : movie(b, hasSnd)
    \/ \E c \in DOMAIN calls : SleepDone(c, None)
    \/ \E e \in Events : Event(e, None)
    \/ \E c \in DOMAIN calls : Cancel(c)
    \/ \E c \in DOMAIN calls : TimerFire(c, None)
    \/ \E c \in DOMAIN calls : ManualDestroy(c)
    \/ \E b \in BOOLEAN : SetImplicitMarkers(b)
    \/ \E code \in ExplicitCodes : ExplicitMarker(code)

\* The stimulus lifecycles, with an engine whose destroy()/stop() succeed.
Spec == Init /\ [][Next]_vars

PositiveDurations == {d \in Durations : d.type = "num" /\ d.num > 0}

NextDestroy ==
    \/ \E d \in PositiveDurations, b \in BOOLEAN : write(d, b)
    \/ \E d \in PositiveDurations : crosshair(d, FALSE)
    \/ sound(FALSE)
    \/ movie(FALSE, FALSE)
    \/ \E c \in DOMAIN calls, fault \in {None} \cup DOMAIN engine : SleepDone(c, fault)
    \/ \E c \in DOMAIN calls, fault \in {None} \cup DOMAIN engine : TimerFire(c, fault)
    \/ \E c \in DOMAIN calls : ManualDestroy(c)
    \/ \E arg \in Args, fault \in {None} \cup DOMAIN engine :
          DirectDestroy(arg, fault)

\* _destroy_object on every kind of argument, with an engine whose
\* destroy()/stop() may raise.
DestroySpec == Init /\ [][NextDestroy]_vars

NextMedia ==
    \/ \E b \in BOOLEAN, m \in MediaOptions : sound_with(b, m)
    \/ \E b \in BOOLEAN, hasSnd \in BOOLEAN, m \in MediaOptions :
          movie_with(b, hasSnd, m)
    \/ \E c \in DOMAIN calls : SleepDone(c, None)
    \/ \E c \in DOMAIN calls : Cancel(c)
    \/ \E c \in DOMAIN calls : TimerFire(c, None)
    \/ \E c \in DOMAIN calls : ManualDestroy(c)
    \/ \E b \in BOOLEAN : SetImplicitMarkers(b)

\* sound and movie with every combination of the playback options.
MediaSpec == Init /\ [][NextMedia]_vars

\* ================================================================= claims
Tracked(o) == o \in Range(to_destroy)

Live(o) == engine[o].st = "live"

Objs(c) == Range(calls[c].objs)

IsZero(d) == d.type = "num" /\ d.num = 0

\* The codes of the markers the module sent for stimulus c, in order.
CodesOf(c) ==
    LET own == SelectSeq(markers, LAMBDA m : m.stim = c)
    IN [i \in 1..Len(own) |-> own[i].code]

\* The lifecycle of stimulus c is over: the call has returned, no timer is
\* pending for it, and the caller has destroyed the handle it was given.
Ended(c) ==
    /\ calls[c].pc = "returned"
    /\ calls[c].timer # "pending"
    /\ \A o \in Range(calls[c].handle) : ~Live(o)

\* C1: when a blocking factory call returns after an uncancelled wait (and
\* no destroy() or stop() raised), every engine object the call created has
\* been destroyed or stopped and is no longer in _to_destroy.
C1_NormalCompletionCleansUp ==
    \A c \in DOMAIN calls :
        (calls[c].blk /\ calls[c].pc = "returned" /\ ~calls[c].faulted)
            => \A o \in Objs(c) : ~Live(o) /\ ~Tracked(o)

\* C2: in the step in which the interrupt is raised inside the sleep() or
\* waitfor() of a blocking call, the interrupt leaves the factory and run(),
\* and every engine object the call created is live and in _to_destroy.
C2_CancelLeavesObjectsTracked ==
    [][\A c \in DOMAIN calls :
          (calls[c].pc \in {"sleep", "waitfor"} /\ calls'[c].pc = "cancelled")
              => /\ cancelled'
                 /\ \A o \in Objs(c) :
                       o \in Range(to_destroy') /\ engine'[o].st = "live"]_vars

C2_Witness ==
    \E c \in DOMAIN calls :
        /\ calls[c].pc = "cancelled"
        /\ Len(calls[c].objs) > 1
        /\ \A o \in Objs(c) : Live(o) /\ Tracked(o)

\* C3: a visual factory called with duration 0 is non-blocking whatever
\* block is: it returns a handle without sleeping and schedules no timer.
C3_ZeroDurationNeverBlocks ==
    \A c \in DOMAIN calls :
        (calls[c].f \in Visual /\ IsZero(calls[c].duration))
            => /\ ~calls[c].blk
               /\ calls[c].pc = "returned"
               /\ calls[c].handle # <<>>
               /\ calls[c].timer = "none"

\* C4: with implicit_markers true at every marker point of the stimulus, a
\* stimulus whose lifecycle is over has sent exactly its onset code and then
\* its offset code, the offset code being the onset code plus one.
C4_ExactlyOnsetThenOffset ==
    \A c \in DOMAIN calls :
        (calls[c].markers_on /\ Ended(c))
            => /\ CodesOf(c) = <<OnsetCode(calls[c].f), OffsetCode(calls[c].f)>>
               /\ OffsetCode(calls[c].f) = OnsetCode(calls[c].f) + 1

\* C5: implicit_markers is false after construction, and no step taken
\* while it is false makes the module send a marker by itself: the only
\* markers sent then are those of explicit marker() calls.
C5_NoImplicitMarkerWhileOff ==
    /\ implicit_markers = FALSE
    /\ [][implicit_markers = FALSE => markers' = markers]_vars

C5_Witness ==
    /\ ~implicit_markers
    /\ markers = <<>>
    /\ explicit # {}
    /\ \E c \in DOMAIN calls :
          calls[c].pc = "returned" /\ \A o \in Objs(c) : ~Live(o) /\ ~Tracked(o)

\* C6: with implicit_markers true, the onset marker of a stimulus whose
\* lifecycle is over has been followed by its offset marker.
C6_OnsetFollowedByOffset ==
    \A c \in DOMAIN calls :
        LET codes == CodesOf(c)
        IN (calls[c].markers_on /\ Ended(c) /\ codes # <<>>
                /\ codes[1] = OnsetCode(calls[c].f))
              => \E i \in 2..Len(codes) : codes[i] = OffsetCode(calls[c].f)

\* C7: no exception escapes a call of _destroy_object, and a failure inside
\* it is reduced to exactly one warning.
C7_DestroyFailuresCaught ==
    /\ last_destroy.escaped = "none"
    /\ last_destroy.warnings = IF last_destroy.exc = "none" THEN 0 ELSE 1

C7_Witness ==
    /\ last_destroy.exc = "EngineError"
    /\ last_destroy.warnings = 1
    /\ last_destroy.escaped = "none"

\* C8: once the timer of a non-blocking call has fired (and no destroy() or
\* stop() raised), every engine object the call created is destroyed or
\* stopped and out of _to_destroy, and the offset marker has been sent.
C8_TimerCleansUp ==
    \A c \in DOMAIN calls :
        (calls[c].timer = "fired" /\ ~calls[c].faulted)
            => /\ \A o \in Objs(c) : ~Live(o) /\ ~Tracked(o)
               /\ calls[c].markers_on =>
                     \E i \in DOMAIN markers :
                        markers[i] = [code |-> OffsetCode(calls[c].f), stim |-> c]

HybridBlocking(r) == r.f \in Visual /\ r.blk /\ r.duration.type = "list"

\* C9: a blocking visual call with a hybrid duration starts in the sleep;
\* while it sleeps no step (an event included) ends it or destroys its
\* objects; it returns only from the waitfor that follows, in a step that
\* posts the named event.
C9_HybridSleepsThenWaits ==
    [][\A c \in DOMAIN calls' :
          HybridBlocking(calls'[c]) =>
             IF c \notin DOMAIN calls
             THEN /\ calls'[c].pc = "sleep"
                  /\ \A o \in Range(calls'[c].objs) :
                        o \in Range(to_destroy') /\ engine'[o].st = "live"
             ELSE /\ calls[c].pc = "sleep" =>
                     /\ calls'[c].pc \in {"sleep", "waitfor", "cancelled"}
                     /\ lastEvent' # lastEvent => calls'[c].pc = "sleep"
                     /\ \A o \in Objs(c) :
                           o \in Range(to_destroy') /\ engine'[o].st = "live"
                  /\ (calls[c].pc = "waitfor" /\ calls'[c].pc # "returned") =>
                        \A o \in Objs(c) :
                           o \in Range(to_destroy') /\ engine'[o].st = "live"
                  /\ (calls[c].pc # "returned" /\ calls'[c].pc = "returned") =>
                        /\ calls[c].pc = "waitfor"
                        /\ lastEvent' = calls[c].duration.ev]_vars

C9_Witness ==
    \E c \in DOMAIN calls :
        /\ HybridBlocking(calls[c])
        /\ calls[c].pc = "waitfor"
        /\ lastEvent = calls[c].duration.ev
        /\ \A o \in Objs(c) : Live(o) /\ Tracked(o)

\* C10: a visual factory called with block=False and an event-gated or
\* hybrid duration returns a handle and raises no error.
C10_EventDurationsAcceptedNonBlocking ==
    \A c \in DOMAIN calls :
        (calls[c].f \in Visual /\ ~calls[c].block
            /\ calls[c].duration.type \in {"str", "list"})
            => calls[c].pc # "raised" /\ calls[c].handle # <<>>

\* The time a sound plays: its length, repeated loopcount times, less the
\* offset it starts at, at play rate 1.
Remaining(m) ==
    (IF m.loopcount # None THEN m.length * m.loopcount ELSE m.length)
        - m.timeoffset

\* C11: a blocking sound call that does not loop forever sleeps for the
\* playback duration, the remaining length divided by the play rate: the
\* time slept times the play rate is the remaining length.
C11_SoundSleepsPlaybackDuration ==
    \A c \in DOMAIN calls :
        (calls[c].f = "sound" /\ calls[c].blk /\ ~calls[c].media.looping)
            => calls[c].duration.num * calls[c].media.playrate
                  = Remaining(calls[c].media)

\* C12: in a blocking call and in a call whose destruction is driven by a
\* timer, once the onset marker is sent and until the offset marker is
\* sent, every object of the stimulus is alive and in _to_destroy (the
\* onset comes after the last append, the offset before the first destroy).
C12_AliveAndTrackedBetweenMarkers ==
    \A c \in DOMAIN calls :
        (/\ calls[c].blk \/ calls[c].timer # "none"
         /\ calls[c].markers_on
         /\ CodesOf(c) = <<OnsetCode(calls[c].f)>>)
            => \A o \in Objs(c) : Live(o) /\ Tracked(o)

\* The number of offset markers logged for stimulus c.
Offsets(c) ==
    LET codes == CodesOf(c)
        RECURSIVE count(_)
        count(i) == IF i = 0 THEN 0
                    ELSE count(i - 1)
                         + (IF codes[i] = OffsetCode(calls[c].f) THEN 1 ELSE 0)
    IN count(Len(codes))

Passed(c) ==
    IF calls[c].timer = "pending" /\ calls'[c].timer = "fired"
    THEN Range(TimerArg(calls[c].f, calls[c].objs).elems) \ {None}
    ELSE IF calls[c].pc \in {"sleep", "waitfor"} /\ calls'[c].pc = "returned"
    THEN Range(BlockingArg(calls[c].f, calls[c].objs).elems) \ {None}
    ELSE {}

\* C14: when an exception is raised inside a call of _destroy_object made
\* for a stimulus, then after the call every element it was handed is
\* either destroyed and out of _to_destroy, or alive and in _to_destroy.
C14_PartialFailureKeepsListConsistent ==
    [][\A c \in DOMAIN calls :
          last_destroy'.exc # "none"
              => \A o \in Passed(c) :
                    \/ engine'[o].st # "live" /\ o \notin Range(to_destroy')
                    \/ engine'[o].st = "live" /\ o \in Range(to_destroy')]_vars

====
